---- MODULE Spec2Model ----
(***************************************************************************)
(* A model of the LinkedIn company profile scraper:                        *)
(*   - the batch loop and the fetch-with-retry loop of                      *)
(*     LinkedInCompanyScraper (scrape_profiles, _fetch_company_page),       *)
(*   - the extraction pipeline (_parse_company, _parse_from_json_ld,        *)
(*     _apply_json_ld, _parse_from_meta_and_title) and the value            *)
(*     normalizers of utils_cleaner (clean_text, safe_int, safe_str,        *)
(*     extract_year).                                                       *)
(*                                                                          *)
(* Python values are tagged tuples: None is <<"None">>, a str is            *)
(* <<"str", s>> with s a sequence of one-character strings, an int is       *)
(* <<"int", n>>, a list is <<"list", seq>> and a dict is <<"dict", rec>>.   *)
(* Durations are counted in tenths of a second.                             *)
(***************************************************************************)
EXTENDS Integers, Sequences, FiniteSets, TLC

(***************************************************************************)
(* Python values                                                           *)
(***************************************************************************)
None == <<"None">>
Str(s) == <<"str", s>>
IntV(n) == <<"int", n>>
List(xs) == <<"list", xs>>
Dict(r) == <<"dict", r>>

IsNone(v) == v = None
IsStr(v) == v[1] = "str"
IsInt(v) == v[1] = "int"
IsList(v) == v[1] = "list"
IsDict(v) == v[1] = "dict"

\* bool(v): None, "", 0, [] are falsy (an empty dict is not drawn by the model)
Truthy(v) ==
    CASE IsNone(v) -> FALSE
      [] IsStr(v)  -> v[2] # <<>>
      [] IsInt(v)  -> v[2] # 0
      [] IsList(v) -> v[2] # <<>>
      [] OTHER     -> TRUE

\* a or b
Or(a, b) == IF Truthy(a) THEN a ELSE b

\* the element of a one-element set; {F(x) : x \in {e}} evaluates e once
\* before F reads it
TheOne(S) == CHOOSE r \in S : TRUE

(***************************************************************************)
(* Characters and strings                                                  *)
(***************************************************************************)
Digits == <<"0", "1", "2", "3", "4", "5", "6", "7", "8", "9">>
UpperCase == <<"A", "B", "C", "D", "E", "F", "G", "H", "I", "J", "K", "L", "M",
               "N", "O", "P", "Q", "R", "S", "T", "U", "V", "W", "X", "Y", "Z">>
LowerCase == <<"a", "b", "c", "d", "e", "f", "g", "h", "i", "j", "k", "l", "m",
               "n", "o", "p", "q", "r", "s", "t", "u", "v", "w", "x", "y", "z">>

Range(f) == {f[i] : i \in DOMAIN f}

IsDigit(c) == c \in Range(Digits)
IsSpace(c) == c \in {" ", "\n", "\t"}
IsWordChar(c) == c \in Range(Digits) \cup Range(UpperCase) \cup Range(LowerCase) \cup {"_"}

DigitVal(c) == (CHOOSE i \in DOMAIN Digits : Digits[i] = c) - 1

LowerChar(c) ==
    IF c \in Range(UpperCase)
    THEN LowerCase[CHOOSE i \in DOMAIN UpperCase : UpperCase[i] = c]
    ELSE c

\* s.lower()
Lower(s) == [i \in DOMAIN s |-> LowerChar(s[i])]

\* sub in s
Contains(s, sub) ==
    \E i \in 0..(Len(s) - Len(sub)) : SubSeq(s, i + 1, i + Len(sub)) = sub

RECURSIVE LStrip(_)
LStrip(s) == IF s # <<>> /\ IsSpace(Head(s)) THEN LStrip(Tail(s)) ELSE s

RECURSIVE RStrip(_)
RStrip(s) ==
    IF s # <<>> /\ IsSpace(s[Len(s)]) THEN RStrip(SubSeq(s, 1, Len(s) - 1)) ELSE s

\* s.strip()
Strip(s) == TheOne({RStrip(l) : l \in {LStrip(s)}})

\* _whitespace_re.sub(" ", s): every maximal run of whitespace becomes one space
RECURSIVE CollapseWs(_)
CollapseWs(s) ==
    IF s = <<>> THEN <<>>
    ELSE IF IsSpace(Head(s)) THEN <<" ">> \o CollapseWs(LStrip(Tail(s)))
    ELSE <<Head(s)>> \o CollapseWs(Tail(s))

\* s.replace(c, "")
RemoveChar(s, c) == SelectSeq(s, LAMBDA x : x # c)

\* s.rstrip(chars)
RECURSIVE RStripChars(_, _)
RStripChars(s, chars) ==
    IF s # <<>> /\ s[Len(s)] \in chars
    THEN RStripChars(SubSeq(s, 1, Len(s) - 1), chars)
    ELSE s

RECURSIVE DigitsToNat(_)
DigitsToNat(s) ==
    IF s = <<>> THEN 0
    ELSE 10 * DigitsToNat(SubSeq(s, 1, Len(s) - 1)) + DigitVal(s[Len(s)])

RECURSIVE NatToDigits(_)
NatToDigits(n) ==
    IF n < 10 THEN <<Digits[n + 1]>>
    ELSE NatToDigits(n \div 10) \o <<Digits[(n % 10) + 1]>>

\* str(n) for an int n
IntToStr(n) == IF n < 0 THEN <<"-">> \o NatToDigits(0 - n) ELSE NatToDigits(n)

\* str(value) for the values the model draws (a str or an int)
PyStr(v) == IF IsInt(v) THEN IntToStr(v[2]) ELSE v[2]

(***************************************************************************)
(* utils_cleaner                                                           *)
(***************************************************************************)
clean_text(value) ==
    IF IsNone(value) THEN None
    ELSE LET text == {PyStr(v) : v \in {value}}
             collapsed == {CollapseWs(t) : t \in text}
             stripped == {Strip(c) : c \in collapsed}
         IN  TheOne({IF cleaned # <<>> THEN Str(cleaned) ELSE None : cleaned \in stripped})

\* int(text) accepts an optional sign followed by decimal digits
IsIntLiteral(text) ==
    LET body == IF text # <<>> /\ Head(text) \in {"+", "-"} THEN Tail(text) ELSE text
    IN  body # <<>> /\ \A i \in DOMAIN body : IsDigit(body[i])

IntLiteral(text) ==
    IF Head(text) = "-" THEN 0 - DigitsToNat(Tail(text))
    ELSE IF Head(text) = "+" THEN DigitsToNat(Tail(text))
    ELSE DigitsToNat(text)

safe_int(value) ==
    IF IsNone(value) THEN None
    ELSE IF IsInt(value) THEN value
    ELSE LET text == Strip(RemoveChar(PyStr(value), ","))
         IN  IF text = <<>> THEN None
             ELSE IF IsIntLiteral(text) THEN IntV(IntLiteral(text))
             ELSE None

safe_str(value) ==
    IF IsNone(value) THEN Str(<<>>)
    ELSE IF IsStr(value) THEN value
    ELSE Str(PyStr(value))

\* position i starts a match of \b(19\d{2}|20\d{2})\b in s
YearAt(s, i) ==
    /\ i + 3 <= Len(s)
    /\ <<s[i], s[i + 1]>> \in {<<"1", "9">>, <<"2", "0">>}
    /\ IsDigit(s[i + 2]) /\ IsDigit(s[i + 3])
    /\ (i = 1 \/ ~IsWordChar(s[i - 1]))
    /\ (i + 3 = Len(s) \/ ~IsWordChar(s[i + 4]))

\* extract_year takes the str that safe_str produced
extract_year(text) ==
    IF ~Truthy(text) THEN None
    ELSE LET s == text[2]
             hits == {i \in DOMAIN s : YearAt(s, i)}
         IN  IF hits = {} THEN None
             ELSE LET i == CHOOSE j \in hits : \A k \in hits : j <= k
                  IN  safe_int(Str(SubSeq(s, i, i + 3)))

(***************************************************************************)
(* Documents                                                               *)
(*                                                                         *)
(* A document is what BeautifulSoup makes of one page:                     *)
(*   scripts : the application/ld+json blocks in document order, each      *)
(*             either Invalid (empty text or a JSONDecodeError) or the     *)
(*             value json.loads returns;                                   *)
(*   title   : soup.title.string, or None;                                 *)
(*   meta    : the content of the first <meta> tag of each name/property;  *)
(*   body    : soup.get_text(" ", strip=True).split().                     *)
(* A JSON object is a function from its keys to values.                    *)
(***************************************************************************)
Invalid == <<"invalid">>

\* d.get(key)
Get(d, key) == IF key \in DOMAIN d THEN d[key] ELSE None

Fields ==
    {"company_name", "company_profile", "company_website", "company_address_type",
     "company_street", "company_locality", "company_region", "company_postal_code",
     "company_country", "company_employees_on_linkedin",
     "company_followers_on_linkedin", "company_logo", "company_cover_image",
     "company_slogan", "company_twitter_description", "company_about_us",
     "company_industry", "company_size", "company_headquarters",
     "company_organization_type", "company_founded", "company_specialties"}

\* the data dict _parse_company starts from
EmptyRecord(url) == [f \in Fields |-> IF f = "company_profile" THEN url ELSE None]

s_organization == <<"o", "r", "g", "a", "n", "i", "z", "a", "t", "i", "o", "n">>
s_corp == <<"c", "o", "r", "p">>
s_company == <<"c", "o", "m", "p", "a", "n", "y">>
s_followers == <<"f", "o", "l", "l", "o", "w", "e", "r", "s">>
s_employees == <<"e", "m", "p", "l", "o", "y", "e", "e", "s">>

(***************************************************************************)
(* _apply_json_ld, one definition per field group                          *)
(***************************************************************************)
IsCandidate(node) ==
    LET node_type == Lower(safe_str(Get(node, "@type"))[2])
    IN  \/ Contains(node_type, s_organization)
        \/ Contains(node_type, s_corp)
        \/ Contains(node_type, s_company)

\* a name that is written only while the field is empty
ApplyNameFirstWins(node, target) ==
    LET name == clean_text(Get(node, "name"))
    IN  IF Truthy(name) /\ ~Truthy(target["company_name"])
        THEN [target EXCEPT !["company_name"] = name]
        ELSE target

ApplyName(node, target) ==
    LET name == clean_text(Get(node, "name"))
    IN  IF Truthy(name) THEN [target EXCEPT !["company_name"] = name] ELSE target

ApplyUrl(node, target) ==
    LET url == clean_text(Get(node, "url"))
    IN  IF Truthy(url) THEN [target EXCEPT !["company_website"] = url] ELSE target

\* getattr(value, "name", None): no JSON value has an attribute called name
GetAttrName(value) == None

ApplyAddress(node, target) ==
    LET raw == Get(node, "address")
        address == IF IsList(raw) /\ Truthy(raw) THEN raw[2][1] ELSE raw
    IN  IF IsDict(address)
        THEN LET a == address[2]
                 country == Get(a, "addressCountry")
             IN  [target EXCEPT
                    !["company_address_type"] = clean_text(Get(a, "@type")),
                    !["company_street"] = clean_text(Get(a, "streetAddress")),
                    !["company_locality"] = clean_text(Get(a, "addressLocality")),
                    !["company_region"] = clean_text(Get(a, "addressRegion")),
                    !["company_postal_code"] = clean_text(Get(a, "postalCode")),
                    !["company_country"] =
                        clean_text(IF IsStr(country) THEN country
                                   ELSE GetAttrName(country))]
        ELSE target

ApplyDescription(node, target) ==
    LET description == clean_text(Get(node, "description"))
    IN  IF Truthy(description) /\ ~Truthy(target["company_about_us"])
        THEN [target EXCEPT !["company_about_us"] = description]
        ELSE target

ApplyEmployees(node, target) ==
    LET employees == Or(Get(node, "numberOfEmployees"), Get(node, "employees"))
    IN  IF Truthy(employees) /\ ~Truthy(target["company_employees_on_linkedin"])
        THEN [target EXCEPT !["company_employees_on_linkedin"] = safe_int(employees)]
        ELSE target

ApplyLogo(node, target) ==
    IF ~Truthy(target["company_logo"])
    THEN LET logo == Get(node, "logo")
         IN  IF IsDict(logo)
             THEN [target EXCEPT !["company_logo"] = clean_text(Get(logo[2], "url"))]
             ELSE [target EXCEPT !["company_logo"] = clean_text(logo)]
    ELSE target

ApplyIndustry(node, target) ==
    IF ~Truthy(target["company_industry"])
    THEN LET industry == clean_text(Get(node, "industry"))
         IN  IF Truthy(industry)
             THEN [target EXCEPT !["company_industry"] = industry]
             ELSE target
    ELSE target

ApplyFounded(node, target) ==
    IF ~Truthy(target["company_founded"])
    THEN LET founded ==
                 extract_year(safe_str(Or(Get(node, "foundingDate"),
                                          Get(node, "foundingYear"))))
         IN  IF Truthy(founded)
             THEN [target EXCEPT !["company_founded"] = founded]
             ELSE target
    ELSE target

ApplySize(node, target) ==
    IF ~Truthy(target["company_size"])
    THEN LET employees_range ==
                 Or(Get(node, "employeesRange"), Get(node, "employeeRange"))
         IN  IF Truthy(employees_range)
             THEN [target EXCEPT !["company_size"] = clean_text(employees_range)]
             ELSE target
    ELSE target

ApplyHeadquarters(node, target) ==
    IF ~Truthy(target["company_headquarters"])
    THEN LET hq == Or(Get(node, "foundingLocation"), Get(node, "location"))
         IN  IF IsDict(hq)
             THEN [target EXCEPT !["company_headquarters"] =
                      clean_text(Or(Get(hq[2], "name"),
                                    Or(Get(hq[2], "addressLocality"),
                                       Get(hq[2], "addressRegion"))))]
             ELSE IF IsStr(hq)
             THEN [target EXCEPT !["company_headquarters"] = clean_text(hq)]
             ELSE target
    ELSE target

\* ", ".join(parts)
RECURSIVE JoinCommaSpace(_)
JoinCommaSpace(parts) ==
    IF parts = <<>> THEN <<>>
    ELSE IF Len(parts) = 1 THEN parts[1]
    ELSE parts[1] \o <<",", " ">> \o JoinCommaSpace(Tail(parts))

\* specialties merged into what the record already holds
ApplySpecialtiesAppend(node, target) ==
    LET specialties ==
            Or(Get(node, "knowsAbout"),
               Or(Get(node, "specialty"), Get(node, "specialties")))
        old == target["company_specialties"]
    IN  IF IsList(specialties)
        THEN LET cleaned == [i \in DOMAIN specialties[2] |->
                                clean_text(specialties[2][i])]
                 kept == SelectSeq(cleaned, Truthy)
                 parts == [i \in DOMAIN kept |-> kept[i][2]]
             IN  [target EXCEPT !["company_specialties"] =
                     IF Truthy(old)
                     THEN Str(JoinCommaSpace(<<old[2]>> \o parts))
                     ELSE Str(JoinCommaSpace(parts))]
        ELSE IF IsStr(specialties) /\ ~Truthy(old)
        THEN [target EXCEPT !["company_specialties"] = clean_text(specialties)]
        ELSE target

ApplySpecialties(node, target) ==
    IF ~Truthy(target["company_specialties"])
    THEN LET specialties ==
                 Or(Get(node, "knowsAbout"),
                    Or(Get(node, "specialty"), Get(node, "specialties")))
         IN  IF IsList(specialties)
             THEN LET cleaned == [i \in DOMAIN specialties[2] |->
                                     clean_text(specialties[2][i])]
                      kept == SelectSeq(cleaned, Truthy)
                      parts == [i \in DOMAIN kept |-> kept[i][2]]
                  IN  [target EXCEPT !["company_specialties"] =
                          Str(JoinCommaSpace(parts))]
             ELSE IF IsStr(specialties)
             THEN [target EXCEPT !["company_specialties"] = clean_text(specialties)]
             ELSE target
    ELSE target

\* the field groups in the order of the code; each line is the record
\* (a one-element set, so that it is computed once) after one more group
ApplyJsonLd(node, target) ==
    IF ~IsCandidate(node) THEN target
    ELSE LET t1 == {ApplyName(node, t) : t \in {target}}
             t2 == {ApplyUrl(node, t) : t \in t1}
             t3 == {ApplyAddress(node, t) : t \in t2}
             t4 == {ApplyDescription(node, t) : t \in t3}
             t5 == {ApplyEmployees(node, t) : t \in t4}
             t6 == {ApplyLogo(node, t) : t \in t5}
             t7 == {ApplyIndustry(node, t) : t \in t6}
             t8 == {ApplyFounded(node, t) : t \in t7}
             t9 == {ApplySize(node, t) : t \in t8}
             t10 == {ApplyHeadquarters(node, t) : t \in t9}
             t11 == {ApplySpecialties(node, t) : t \in t10}
         IN  TheOne(t11)

(***************************************************************************)
(* _parse_from_json_ld                                                     *)
(***************************************************************************)
\* the dicts one parsed block hands to _apply_json_ld, in order
NodesOf(parsed) ==
    IF IsList(parsed)
    THEN LET entries == SelectSeq(parsed[2], IsDict)
         IN  [i \in DOMAIN entries |-> entries[i][2]]
    ELSE IF IsDict(parsed) THEN <<parsed[2]>>
    ELSE <<>>

\* the visiting order of the two nested loops over all blocks of the document
RECURSIVE JsonLdNodes(_)
JsonLdNodes(scripts) ==
    IF scripts = <<>> THEN <<>>
    ELSE NodesOf(Head(scripts)) \o JsonLdNodes(Tail(scripts))

RECURSIVE ApplyAll(_, _)
ApplyAll(nodes, target) ==
    IF nodes = <<>> THEN target
    ELSE TheOne({ApplyAll(rest, t) : rest \in {Tail(nodes)},
                                      t \in {ApplyJsonLd(Head(nodes), target)}})

ParseFromJsonLd(doc, target) ==
    TheOne({ApplyAll(nodes, target) : nodes \in {JsonLdNodes(doc.scripts)}})

(***************************************************************************)
(* _parse_from_meta_and_title                                              *)
(***************************************************************************)
\* s.split(sep) for a one-character separator
RECURSIVE Split(_, _)
Split(s, sep) ==
    IF \A i \in DOMAIN s : s[i] # sep THEN <<s>>
    ELSE LET i == CHOOSE j \in DOMAIN s :
                      s[j] = sep /\ \A k \in 1..(j - 1) : s[k] # sep
         IN  <<SubSeq(s, 1, i - 1)>> \o Split(SubSeq(s, i + 1, Len(s)), sep)

\* _find_meta_content: the first key whose tag exists with a non-empty content
RECURSIVE FindMetaContent(_, _)
FindMetaContent(meta, keys) ==
    IF keys = <<>> THEN None
    ELSE IF Truthy(Get(meta, Head(keys))) THEN Get(meta, Head(keys))
    ELSE FindMetaContent(meta, Tail(keys))

\* _extract_number_near_keyword over the tokens of text.split()
ExtractNumberNearKeyword(tokens, keyword) ==
    LET hits == {i \in DOMAIN tokens :
                    /\ Contains(Lower(tokens[i]), Lower(keyword))
                    /\ i > 1
                    /\ safe_int(Str(RStripChars(tokens[i - 1], {"+", "·"}))) # None}
    IN  IF hits = {} THEN None
        ELSE LET i == CHOOSE j \in hits : \A k \in hits : j <= k
             IN  safe_int(Str(RStripChars(tokens[i - 1], {"+", "·"})))

MetaTitle(doc, target) ==
    IF ~Truthy(target["company_name"]) /\ Truthy(doc.title)
    THEN LET title == clean_text(doc.title)
         IN  IF Truthy(title)
             THEN LET split == Split(title[2], "|")
                      stripped == [i \in DOMAIN split |-> Strip(split[i])]
                      pieces == SelectSeq(stripped, LAMBDA p : p # <<>>)
                  IN  IF pieces # <<>>
                      THEN [target EXCEPT !["company_name"] = Str(pieces[1])]
                      ELSE target
             ELSE target
    ELSE target

MetaDescription(doc, target) ==
    IF ~Truthy(target["company_about_us"])
    THEN LET desc == FindMetaContent(doc.meta, <<"description", "og:description">>)
         IN  IF Truthy(desc)
             THEN [target EXCEPT
                     !["company_about_us"] = clean_text(desc),
                     !["company_twitter_description"] =
                         IF ~Truthy(target["company_twitter_description"])
                         THEN clean_text(desc) ELSE @]
             ELSE target
    ELSE target

MetaLogo(doc, target) ==
    IF ~Truthy(target["company_logo"])
    THEN LET logo == FindMetaContent(doc.meta, <<"og:logo", "og:image", "twitter:image">>)
         IN  IF Truthy(logo)
             THEN [target EXCEPT !["company_logo"] = clean_text(logo)]
             ELSE target
    ELSE target

MetaCover(doc, target) ==
    IF ~Truthy(target["company_cover_image"])
    THEN LET cover == FindMetaContent(doc.meta, <<"og:image", "twitter:image">>)
         IN  IF Truthy(cover)
             THEN [target EXCEPT !["company_cover_image"] = clean_text(cover)]
             ELSE target
    ELSE target

MetaSlogan(doc, target) ==
    IF ~Truthy(target["company_slogan"])
    THEN LET raw == FindMetaContent(doc.meta, <<"og:title", "twitter:title">>)
         IN  IF Truthy(raw)
             THEN LET headline == clean_text(raw)
                  IN  IF /\ Truthy(headline)
                         /\ Truthy(target["company_name"])
                         /\ headline # target["company_name"]
                      THEN [target EXCEPT !["company_slogan"] = headline]
                      ELSE target
             ELSE target
    ELSE target

BodyFollowers(doc, target) ==
    IF doc.body # <<>> /\ ~Truthy(target["company_followers_on_linkedin"])
    THEN LET followers == ExtractNumberNearKeyword(doc.body, s_followers)
         IN  IF followers # None
             THEN [target EXCEPT !["company_followers_on_linkedin"] = followers]
             ELSE target
    ELSE target

BodyEmployees(doc, target) ==
    IF doc.body # <<>> /\ ~Truthy(target["company_employees_on_linkedin"])
    THEN LET employees == ExtractNumberNearKeyword(doc.body, s_employees)
         IN  IF employees # None
             THEN [target EXCEPT !["company_employees_on_linkedin"] = employees]
             ELSE target
    ELSE target

ParseFromMetaAndTitle(doc, target) ==
    LET t1 == {MetaTitle(doc, t) : t \in {target}}
        t2 == {MetaDescription(doc, t) : t \in t1}
        t3 == {MetaLogo(doc, t) : t \in t2}
        t4 == {MetaCover(doc, t) : t \in t3}
        t5 == {MetaSlogan(doc, t) : t \in t4}
        t6 == {BodyFollowers(doc, t) : t \in t5}
        t7 == {BodyEmployees(doc, t) : t \in t6}
    IN  TheOne(t7)

\* _parse_company once BeautifulSoup has built the document
ParseCompany(doc, url) ==
    TheOne({ParseFromMetaAndTitle(doc, t) : t \in {ParseFromJsonLd(doc, EmptyRecord(url))}})

(***************************************************************************)
(* Exceptions                                                              *)
(*                                                                         *)
(* An exception is <<"exc", class, message, attempt>>; the last component  *)
(* is the attempt that raised it (0 when no request raised it), so that    *)
(* the exception objects of different attempts are different objects.      *)
(***************************************************************************)
Exc(cls, msg, at) == <<"exc", cls, msg, at>>
ExcClass(e) == e[2]

\* subclasses of requests.RequestException the transport raises
RequestExceptions == {"ConnectionError", "Timeout"}

\* subclasses of Exception among the classes of the model
Exceptions == RequestExceptions \cup {"RuntimeError", "FeatureNotFound"}

s_fetch_failed ==
    <<"F", "a", "i", "l", "e", "d", " ", "t", "o", " ", "f", "e", "t", "c", "h", " ">>
s_timed_out == <<"t", "i", "m", "e", "d", " ", "o", "u", "t">>
s_refused == <<"r", "e", "f", "u", "s", "e", "d">>
s_no_parser == <<"n", "o", " ", "l", "x", "m", "l">>

TransportError(cls, at) ==
    Exc(cls, IF cls = "Timeout" THEN s_timed_out ELSE s_refused, at)

\* RuntimeError(f"Failed to fetch {url}")
FetchFailed(url) == Exc("RuntimeError", s_fetch_failed \o url[2], 0)

\* what BeautifulSoup(html, "lxml") raises when the lxml parser is missing
ParserMissing == Exc("FeatureNotFound", s_no_parser, 0)

\* safe_str(exc), that is str(exc)
ExcStr(e) == Str(e[3])

(***************************************************************************)
(* Configuration and inputs                                                *)
(***************************************************************************)
MaxUrls == 2
\* max_retries is drawn from -NegRetries..MaxRetries
NegRetries == 1
MaxRetries == 3
DefaultMaxRetries == 3
BackoffFactor == 15
JitterMax == 5

Url1 == Str(<<"u", "1">>)
Url2 == Str(<<"u", "2">>)
UrlSet == {Url1, Url2}

UrlLists == UNION {[1..n -> UrlSet] : n \in 0..MaxUrls}

StatusSet == {199, 200, 299, 300, 404}

s_Organization == <<"O", "r", "g", "a", "n", "i", "z", "a", "t", "i", "o", "n">>
s_Corporation == <<"C", "o", "r", "p", "o", "r", "a", "t", "i", "o", "n">>
s_LocalCompany == <<"L", "o", "c", "a", "l", "C", "O", "M", "P", "A", "N", "Y">>
s_Person == <<"P", "e", "r", "s", "o", "n">>
s_Acme == <<"A", "c", "m", "e", " ", "I", "n", "c">>
s_Springfield == <<"S", "p", "r", "i", "n", "g", "f", "i", "e", "l", "d">>

NoHead == [title |-> None, meta |-> <<>>, body |-> <<>>]

\* the pages a successful response can carry
PageAcme ==
    [scripts |-> <<Dict(("@type" :> Str(s_Organization)) @@
                        [name |-> Str(s_Acme),
                         address |-> Dict([addressLocality |-> Str(s_Springfield)])])>>,
     title |-> None, meta |-> <<>>, body |-> <<>>]
PageBare == [scripts |-> <<Invalid>>, title |-> None, meta |-> <<>>, body |-> <<>>]
Pages == {PageAcme, PageBare}

(***************************************************************************)
(* The documents of the extraction runs: up to MaxScripts structured-data  *)
(* blocks drawn from Blocks, under one of the Heads.                       *)
(***************************************************************************)
MaxScripts == 2

Org == Str(s_Organization)
Person == Str(s_Person)

\* nodes that differ in type, name and url only
NamedNode(type, name, url) == ("@type" :> type) @@ [name |-> name, url |-> url]

NameNodes ==
    {NamedNode(Org, None, None),
     NamedNode(Org, Str(<<" ", "\n">>), Str(<<" ">>)),
     NamedNode(Org, Str(<<"A">>), Str(<<"w">>)),
     NamedNode(Org, Str(<<" ", "B", " ", " ", "B", " ">>), None),
     NamedNode(Person, Str(<<"P">>), Str(<<"p">>)),
     NamedNode(Str(s_Corporation), Str(<<"C">>), Str(<<"x">>)),
     NamedNode(Str(s_LocalCompany), Str(<<"D">>), Str(<<"y">>)),
     [name |-> Str(<<"E">>), url |-> Str(<<"z">>)]}

\* a node with every field the extractor reads
NodeFull1 ==
    ("@type" :> Org) @@
    [name |-> Str(<<"F">>),
     url |-> Str(<<"f">>),
     address |-> Dict(("@type" :> Str(<<"P", "A">>)) @@
                      [streetAddress |-> Str(<<"1", " ", "M">>),
                       addressLocality |-> Str(<<"S">>),
                       addressRegion |-> Str(<<"R">>),
                       postalCode |-> IntV(90),
                       addressCountry |-> Str(<<"U">>)]),
     description |-> Str(<<"d">>),
     numberOfEmployees |-> IntV(7),
     logo |-> Dict([url |-> Str(<<"l">>)]),
     industry |-> Str(<<"i">>),
     foundingDate |-> Str(<<"1", "9", "9", "8", "-", "0", "1">>),
     employeesRange |-> Str(<<"1", "-", "5">>),
     foundingLocation |-> Dict([addressLocality |-> Str(<<"h">>)]),
     knowsAbout |-> List(<<Str(<<"a">>), Str(<<" ">>), Str(<<"b">>)>>)]

\* the same fields under their alternative keys and shapes
NodeFull2 ==
    ("@type" :> Org) @@
    [name |-> Str(<<"G">>),
     address |-> List(<<Dict([addressLocality |-> Str(<<"T">>),
                              addressCountry |-> Dict([name |-> Str(<<"V">>)])])>>),
     description |-> Str(<<"e">>),
     employees |-> Str(<<"1", ",", "2", "3", "4">>),
     logo |-> Str(<<"m">>),
     industry |-> Str(<<"j">>),
     foundingYear |-> IntV(2005),
     employeeRange |-> Str(<<"6", "-", "9">>),
     location |-> Str(<<"g">>),
     specialties |-> Str(<<"c">>)]

\* values that are blank, zero or not a year
NodeBlank ==
    ("@type" :> Org) @@
    [description |-> Str(<<" ">>),
     numberOfEmployees |-> Str(<<"0">>),
     industry |-> Str(<<>>),
     foundingDate |-> Str(<<"1", "9", "9", "8", "7">>),
     employeesRange |-> Str(<<" ">>),
     location |-> Dict([name |-> Str(<<" ">>)]),
     knowsAbout |-> List(<<Str(<<" ">>), Str(<<>>)>>)]

Nodes == NameNodes \cup {NodeFull1, NodeFull2, NodeBlank}

Blocks ==
    {Invalid, Str(<<"x">>), List(<<>>),
     List(<<Dict(NodeFull2), Str(<<"x">>), Dict(NodeFull1)>>)}
    \cup {Dict(n) : n \in Nodes}

HeadFull ==
    [title |-> Str(<<" ", "T", " ", "|", " ", "L">>),
     meta |-> ("description" :> Str(<<"D">>)) @@ ("og:image" :> Str(<<"I">>)) @@
              ("og:title" :> Str(<<"H">>)),
     body |-> << <<"1", ",", "2", "0", "0", "+">>,
                 <<"F", "o", "l", "l", "o", "w", "e", "r", "s">>,
                 <<"5">>,
                 s_employees >>]

HeadOdd ==
    [title |-> Str(<<" ", "|", " ">>),
     meta |-> ("description" :> Str(<<>>)) @@ ("og:description" :> Str(<<" ">>)) @@
              ("og:logo" :> Str(<<"O">>)) @@ ("twitter:image" :> Str(<<"J">>)) @@
              ("twitter:title" :> Str(<<"A">>)),
     body |-> << s_employees,
                 <<"x">>,
                 <<"e", "m", "p", "l", "o", "y", "e", "e", "s", ".">>,
                 <<"3", "·">>,
                 s_followers >>]

Heads == {NoHead, HeadFull, HeadOdd}

ScriptLists == UNION {[1..n -> Blocks] : n \in 0..MaxScripts}

Docs ==
    {[scripts |-> sc, title |-> h.title, meta |-> h.meta, body |-> h.body] :
        sc \in ScriptLists, h \in Heads}

(***************************************************************************)
(* The records a run of _parse_from_json_ld can be handed: the fresh one,  *)
(* one with every field filled, one whose values are falsy (0 and ""), and *)
(* one with a name and an address only.                                    *)
(***************************************************************************)
StartFull ==
    [f \in Fields |->
        CASE f = "company_profile" -> Url1
          [] f \in {"company_employees_on_linkedin",
                    "company_followers_on_linkedin"} -> IntV(3)
          [] f = "company_founded" -> IntV(1990)
          [] OTHER -> Str(<<"q">>)]

StartFalsy ==
    [f \in Fields |->
        CASE f = "company_profile" -> Url1
          [] f \in {"company_employees_on_linkedin",
                    "company_followers_on_linkedin",
                    "company_founded"} -> IntV(0)
          [] f \in {"company_logo", "company_about_us", "company_specialties",
                    "company_size", "company_country"} -> Str(<<>>)
          [] OTHER -> None]

StartAddressed ==
    [f \in Fields |->
        CASE f = "company_profile" -> Url1
          [] f \in {"company_name", "company_street", "company_country",
                    "company_postal_code"} -> Str(<<"k">>)
          [] OTHER -> None]

StartRecords == {EmptyRecord(Url1), StartFull, StartFalsy, StartAddressed}

(***************************************************************************)
(* State                                                                   *)
(*                                                                         *)
(* scrape_profiles:      urls, max_retries, lxml, pc, idx, results, html,  *)
(*                       exc                                               *)
(* _fetch_company_page:  attempt, last_exc, and the record of what the     *)
(*                       transport and the clock saw for the current URL:  *)
(*                       reqs (one outcome per request: the status, with   *)
(*                       the body when it is returned, or the error        *)
(*                       raised), sleeps (the                              *)
(*                       backoff part of each time.sleep), jitter (the     *)
(*                       jitter part of the latest one)                    *)
(* _parse_company:       doc, target, node_i, stage                        *)
(* a repeated run of _parse_from_json_ld: first, the record the first run  *)
(*                       left (None until that run is over)                *)
(***************************************************************************)
VARIABLES urls, max_retries, lxml, pc, idx, results, html, exc,
          attempt, last_exc, reqs, sleeps, jitter,
          doc, target, node_i, stage, first

batch_vars == <<urls, max_retries, lxml, pc, idx, results, html, exc,
                attempt, last_exc, reqs, sleeps, jitter>>
parse_vars == <<doc, target, node_i, stage, first>>
vars == <<urls, max_retries, lxml, pc, idx, results, html, exc,
          attempt, last_exc, reqs, sleeps, jitter,
          doc, target, node_i, stage, first>>

(***************************************************************************)
(* _fetch_company_page                                                     *)
(***************************************************************************)
\* a loop that stops one attempt early
LoopContinuesShort(a, retries) == a < retries

\* for attempt in range(1, self.max_retries + 1)
LoopContinues(a, retries) == a <= retries

\* 200 <= response.status_code < 300
IsSuccess(status) == 200 <= status /\ status < 300

\* a non-OK status forgetting the error of an earlier attempt
NextLastExcReset(outcome, last) == IF outcome[1] = "error" THEN outcome[2] ELSE None

\* last_exc after one failed attempt: only the except branch assigns it
NextLastExc(outcome, last) == IF outcome[1] = "error" THEN outcome[2] ELSE last

\* backoff_factor * (2 ** (attempt - 1)), in tenths of a second
Backoff(a) == BackoffFactor * (2 ^ (a - 1))

\* the exception the fetch ends with once the loop is over
FetchError(last, url) == IF last # None THEN last ELSE FetchFailed(url)

\* the tail of a failed iteration: log, remember the error, sleep, next attempt
FailedAttempt(outcome) ==
    /\ reqs' = Append(reqs, outcome)
    /\ last_exc' = NextLastExc(outcome, last_exc)
    /\ \E j \in {0, JitterMax} :
          /\ sleeps' = Append(sleeps, Backoff(attempt))
          /\ jitter' = j
    /\ attempt' = attempt + 1
    /\ UNCHANGED <<urls, max_retries, lxml, pc, idx, results, html, exc>>
    /\ UNCHANGED parse_vars

AttemptOk ==
    /\ pc = "fetch"
    /\ LoopContinues(attempt, max_retries)
    /\ \E status \in StatusSet, page \in Pages :
          /\ IsSuccess(status)
          /\ reqs' = Append(reqs, <<"status", status, page>>)
          /\ html' = page
    /\ pc' = "parse"
    /\ UNCHANGED <<urls, max_retries, lxml, idx, results, exc,
                   attempt, last_exc, sleeps, jitter>>
    /\ UNCHANGED parse_vars

AttemptNonOk ==
    /\ pc = "fetch"
    /\ LoopContinues(attempt, max_retries)
    /\ \E status \in StatusSet :
          /\ ~IsSuccess(status)
          /\ FailedAttempt(<<"status", status>>)

AttemptRequestException ==
    /\ pc = "fetch"
    /\ LoopContinues(attempt, max_retries)
    /\ \E cls \in RequestExceptions :
          FailedAttempt(<<"error", TransportError(cls, attempt)>>)

FetchRaise ==
    /\ pc = "fetch"
    /\ ~LoopContinues(attempt, max_retries)
    /\ exc' = FetchError(last_exc, urls[idx])
    /\ pc' = "except"
    /\ UNCHANGED <<urls, max_retries, lxml, idx, results, html,
                   attempt, last_exc, reqs, sleeps, jitter>>
    /\ UNCHANGED parse_vars

(***************************************************************************)
(* scrape_profiles                                                         *)
(***************************************************************************)
\* a skeleton that loses the URL
SkeletonNoUrl(url, e) ==
    [company_name |-> None, company_profile |-> None, error |-> ExcStr(e)]

\* the record appended by the except branch
Skeleton(url, e) ==
    [company_name |-> None, company_profile |-> url, error |-> ExcStr(e)]

\* except requests.RequestException
CatchesRequestOnly(e) == ExcClass(e) \in RequestExceptions

\* except Exception
Catches(e) == ExcClass(e) \in Exceptions

ReturnEmpty ==
    /\ pc = "start"
    /\ urls = <<>>
    /\ results' = <<>>
    /\ pc' = "done"
    /\ UNCHANGED <<urls, max_retries, lxml, idx, html, exc,
                   attempt, last_exc, reqs, sleeps, jitter>>
    /\ UNCHANGED parse_vars

BeginBatch ==
    /\ pc = "start"
    /\ urls # <<>>
    /\ results' = <<>>
    /\ idx' = 1
    /\ pc' = "loop"
    /\ UNCHANGED <<urls, max_retries, lxml, html, exc,
                   attempt, last_exc, reqs, sleeps, jitter>>
    /\ UNCHANGED parse_vars

\* the next URL of the for loop: the try block calls _fetch_company_page
NextUrl ==
    /\ pc = "loop"
    /\ idx <= Len(urls)
    /\ attempt' = 1
    /\ last_exc' = None
    /\ reqs' = <<>>
    /\ sleeps' = <<>>
    /\ jitter' = 0
    /\ html' = None
    /\ exc' = None
    /\ pc' = "fetch"
    /\ UNCHANGED <<urls, max_retries, lxml, idx, results>>
    /\ UNCHANGED parse_vars

\* _parse_company returns and the record is appended
ParseOk ==
    /\ pc = "parse"
    /\ lxml
    /\ results' = Append(results, ParseCompany(html, urls[idx]))
    /\ idx' = idx + 1
    /\ pc' = "loop"
    /\ UNCHANGED <<urls, max_retries, lxml, html, exc,
                   attempt, last_exc, reqs, sleeps, jitter>>
    /\ UNCHANGED parse_vars

\* _parse_company raises: BeautifulSoup finds no lxml parser
ParseRaise ==
    /\ pc = "parse"
    /\ ~lxml
    /\ exc' = ParserMissing
    /\ pc' = "except"
    /\ UNCHANGED <<urls, max_retries, lxml, idx, results, html,
                   attempt, last_exc, reqs, sleeps, jitter>>
    /\ UNCHANGED parse_vars

\* the except branch, or the exception leaving scrape_profiles
HandleException ==
    /\ pc = "except"
    /\ IF Catches(exc)
       THEN /\ results' = Append(results, Skeleton(urls[idx], exc))
            /\ idx' = idx + 1
            /\ pc' = "loop"
       ELSE /\ pc' = "raised"
            /\ UNCHANGED <<idx, results>>
    /\ UNCHANGED <<urls, max_retries, lxml, html, exc,
                   attempt, last_exc, reqs, sleeps, jitter>>
    /\ UNCHANGED parse_vars

Return ==
    /\ pc = "loop"
    /\ idx > Len(urls)
    /\ pc' = "done"
    /\ UNCHANGED <<urls, max_retries, lxml, idx, results, html, exc,
                   attempt, last_exc, reqs, sleeps, jitter>>
    /\ UNCHANGED parse_vars

(***************************************************************************)
(* _parse_company, one step per node handed to _apply_json_ld              *)
(***************************************************************************)
ApplyNode ==
    /\ stage = "json_ld"
    /\ node_i <= Len(JsonLdNodes(doc.scripts))
    /\ target' = ApplyJsonLd(JsonLdNodes(doc.scripts)[node_i], target)
    /\ node_i' = node_i + 1
    /\ UNCHANGED <<doc, stage, first>>
    /\ UNCHANGED batch_vars

\* _parse_from_json_ld returns
JsonLdReturn ==
    /\ stage = "json_ld"
    /\ node_i > Len(JsonLdNodes(doc.scripts))
    /\ stage' = "meta"
    /\ UNCHANGED <<doc, target, node_i, first>>
    /\ UNCHANGED batch_vars

\* _parse_from_meta_and_title runs and _parse_company returns
MetaAndTitle ==
    /\ stage = "meta"
    /\ target' = ParseFromMetaAndTitle(doc, target)
    /\ stage' = "done"
    /\ UNCHANGED <<doc, node_i, first>>
    /\ UNCHANGED batch_vars

(***************************************************************************)
(* _parse_from_json_ld called a second time on the same document and the   *)
(* record the first call left                                              *)
(***************************************************************************)
\* the first call returns and the second one starts
RunAgain ==
    /\ stage = "json_ld"
    /\ node_i > Len(JsonLdNodes(doc.scripts))
    /\ first' = target
    /\ node_i' = 1
    /\ stage' = "json_ld_again"
    /\ UNCHANGED <<doc, target>>
    /\ UNCHANGED batch_vars

ApplyNodeAgain ==
    /\ stage = "json_ld_again"
    /\ node_i <= Len(JsonLdNodes(doc.scripts))
    /\ target' = ApplyJsonLd(JsonLdNodes(doc.scripts)[node_i], target)
    /\ node_i' = node_i + 1
    /\ UNCHANGED <<doc, stage, first>>
    /\ UNCHANGED batch_vars

\* the second call returns
AgainReturn ==
    /\ stage = "json_ld_again"
    /\ node_i > Len(JsonLdNodes(doc.scripts))
    /\ stage' = "twice"
    /\ UNCHANGED <<doc, target, node_i, first>>
    /\ UNCHANGED batch_vars

ParseIdle ==
    /\ doc = PageBare
    /\ target = EmptyRecord(Url1)
    /\ node_i = 1
    /\ stage = "idle"
    /\ first = None

Init ==
    /\ urls \in UrlLists
    /\ max_retries \in (0 - NegRetries)..MaxRetries
    /\ lxml \in BOOLEAN
    /\ pc = "start"
    /\ idx = 0
    /\ results = <<>>
    /\ html = None
    /\ exc = None
    /\ attempt = 0
    /\ last_exc = None
    /\ reqs = <<>>
    /\ sleeps = <<>>
    /\ jitter = 0
    /\ ParseIdle

Next ==
    \/ ReturnEmpty
    \/ BeginBatch
    \/ NextUrl
    \/ AttemptOk
    \/ AttemptNonOk
    \/ AttemptRequestException
    \/ FetchRaise
    \/ ParseOk
    \/ ParseRaise
    \/ HandleException
    \/ Return

Spec == Init /\ [][Next]_vars

(***************************************************************************)
(* Properties of the batch loop and of the fetch                           *)
(***************************************************************************)
\* what the transport did for the URL whose requests are in reqs
Succeeded(outcome) == outcome[1] = "status" /\ outcome[2] \in 200..299
FetchSucceeded == reqs # <<>> /\ Succeeded(reqs[Len(reqs)])
ErrorAttempts == {k \in DOMAIN reqs : reqs[k][1] = "error"}
LastErrorAttempt == CHOOSE k \in ErrorAttempts : \A j \in ErrorAttempts : j <= k
FetchGaveUp == pc = "except" /\ ~FetchSucceeded

RECURSIVE Sum(_)
Sum(xs) == IF xs = <<>> THEN 0 ELSE Head(xs) + Sum(Tail(xs))

\* C1: the list scrape_profiles returns has one record per input URL, in
\* input order, and record i carries URL i as company_profile, whether URL i
\* succeeded or failed.
C1_OneRecordPerUrlInOrder ==
    pc = "done" =>
        /\ Len(results) = Len(urls)
        /\ \A i \in DOMAIN urls : results[i]["company_profile"] = urls[i]

C1_Witness ==
    /\ pc = "done"
    /\ Len(urls) = 2
    /\ urls[1] # urls[2]
    /\ "error" \notin DOMAIN results[1]
    /\ "error" \in DOMAIN results[2]

\* the URL just processed failed: its fetch gave up or its parse raised
JustFailed == pc = "loop" /\ idx > 1 /\ (~FetchSucceeded \/ ~lxml)

\* the failure of the URL whose requests are in reqs
Failure(url) ==
    IF FetchSucceeded THEN ParserMissing
    ELSE IF ErrorAttempts # {} THEN reqs[LastErrorAttempt][2]
    ELSE FetchFailed(url)

C2_SkeletonInPlace ==
    /\ pc # "raised"
    /\ JustFailed =>
          /\ Len(results) = idx - 1
          /\ DOMAIN results[idx - 1] = {"company_name", "company_profile", "error"}
          /\ results[idx - 1]["company_name"] = None
          /\ results[idx - 1]["company_profile"] = urls[idx - 1]
          /\ IsStr(results[idx - 1]["error"])
          /\ results[idx - 1]["error"] = Str(Failure(urls[idx - 1])[3])

C2_GoesOn ==
    (JustFailed /\ idx <= Len(urls)) => (pc' = "fetch" /\ results' = results)

\* C2: a failure of URL i (fetch out of retries, or parse raising) never
\* leaves scrape_profiles as an exception; position i gets a skeleton with
\* company_name None, company_profile the URL and error the string of the
\* failure, and the loop goes on with the next URL.
C2_FailureIsolated == [](C2_SkeletonInPlace) /\ [][C2_GoesOn]_vars

C2_Witness ==
    /\ pc = "done"
    /\ Len(urls) = 2
    /\ "error" \in DOMAIN results[1]
    /\ "error" \notin DOMAIN results[2]

\* C3: every record of the result, the records of failed URLs included, has
\* every Company Record field name as a key.
C3_UniformFields ==
    \A i \in DOMAIN results : Fields \subseteq DOMAIN results[i]

\* C4: a fetch issues at most max_retries requests, returns the body of the
\* first response with a status in [200,300) without a further request, and
\* gives up only when max_retries attempts have been made.
C4_BoundedRetries ==
    /\ \A k \in DOMAIN reqs : k <= max_retries
    /\ \A k \in DOMAIN reqs :
          Succeeded(reqs[k]) =>
              /\ k = Len(reqs)
              /\ pc # "fetch"
              /\ html = reqs[k][3]
    /\ pc = "parse" => FetchSucceeded
    /\ FetchGaveUp => Len(reqs) >= max_retries

C4_Witness ==
    /\ pc = "parse"
    /\ max_retries = 3
    /\ Len(reqs) = 3
    /\ reqs[1][1] = "status"
    /\ reqs[2][1] = "error"

\* C5: a fetch that gives up raises the most recent transport error of its
\* attempts if there was one (even when later attempts failed by status),
\* and the generic fetch-failed error if there was none.
C5_ExhaustionError ==
    FetchGaveUp =>
        exc = IF ErrorAttempts # {} THEN reqs[LastErrorAttempt][2]
              ELSE FetchFailed(urls[idx])

C5_Witness ==
    /\ FetchGaveUp
    /\ Len(reqs) = 3
    /\ reqs[1][1] = "error"
    /\ reqs[2][1] = "error"
    /\ reqs[3][1] = "status"
    /\ exc = reqs[2][2]

\* C6: with max_retries = 3 and backoff_factor = 1.5 a fetch whose three
\* attempts fail has slept 4.5 seconds, jitter excluded, in
\* max_retries - 1 sleeps when it reports the failure.
C6_SleepsOnlyBeforeRetries ==
    (FetchGaveUp /\ max_retries = 3 /\ BackoffFactor = 15) =>
        /\ Len(sleeps) = max_retries - 1
        /\ Sum(sleeps) = 45

(***************************************************************************)
(* The extraction of one document                                          *)
(***************************************************************************)
BatchIdle ==
    /\ urls = <<>>
    /\ max_retries = DefaultMaxRetries
    /\ lxml = TRUE
    /\ pc = "idle"
    /\ idx = 0
    /\ results = <<>>
    /\ html = None
    /\ exc = None
    /\ attempt = 0
    /\ last_exc = None
    /\ reqs = <<>>
    /\ sleeps = <<>>
    /\ jitter = 0

InitParse ==
    /\ BatchIdle
    /\ doc \in Docs
    /\ target = EmptyRecord(Url1)
    /\ node_i = 1
    /\ stage = "json_ld"
    /\ first = None

NextParse ==
    \/ ApplyNode
    \/ JsonLdReturn
    \/ MetaAndTitle

SpecParse == InitParse /\ [][NextParse]_vars

(***************************************************************************)
(* Properties of the extraction                                            *)
(***************************************************************************)
\* a field holds a value: a non-empty string or any integer
HoldsValue(v) == IsInt(v) \/ (IsStr(v) /\ v[2] # <<>>)

AddressFields ==
    {"company_address_type", "company_street", "company_locality",
     "company_region", "company_postal_code", "company_country"}

FirstWriterFields ==
    {"company_about_us", "company_employees_on_linkedin", "company_logo",
     "company_industry", "company_founded", "company_size",
     "company_headquarters", "company_specialties"}

\* C7: while the structured-data pass runs, applying a node changes no field
\* that is already non-absent, company_name and company_website excepted;
\* the address fields set from an earlier node are among the fields kept.
C7_OnlyAbsentFieldsWritten ==
    [][stage = "json_ld" =>
          \A f \in (Fields \ {"company_name", "company_website"}) \cup AddressFields :
              target[f] # None => target'[f] = target[f]]_vars

\* C8: once a node has set one of the first-writer-wins fields to a value,
\* the integer 0 included, no later node of the pass changes it.
C8_FirstWriterWins ==
    [][stage = "json_ld" =>
          \A f \in FirstWriterFields :
              HoldsValue(target[f]) => target'[f] = target[f]]_vars

\* the entries of one block: a list's elements, or the block itself
Entries(block) == IF IsList(block) THEN block[2] ELSE <<block>>

\* the places <<block, entry>> of the candidate organization nodes whose
\* value under key is present and non-empty after cleaning
Carriers(key) ==
    {p \in UNION {{<<b, e>> : e \in DOMAIN Entries(doc.scripts[b])} :
                     b \in DOMAIN doc.scripts} :
        LET entry == Entries(doc.scripts[p[1]])[p[2]]
        IN  /\ IsDict(entry)
            /\ IsCandidate(entry[2])
            /\ clean_text(Get(entry[2], key)) # None}

Before(p, q) == p[1] < q[1] \/ (p[1] = q[1] /\ p[2] <= q[2])
FirstCarrier(key) == CHOOSE p \in Carriers(key) : \A q \in Carriers(key) : Before(p, q)
LastCarrier(key) == CHOOSE p \in Carriers(key) : \A q \in Carriers(key) : Before(q, p)
CleanedAt(p, key) == clean_text(Get(Entries(doc.scripts[p[1]])[p[2]][2], key))

\* C9: after the structured-data pass company_name is the cleaned name of
\* the last candidate organization node, in document order, that has a
\* non-empty cleaned name, and company_website likewise for url; other
\* nodes and unparsable blocks leave both untouched.
C9_LastNamedNodeWins ==
    stage = "meta" =>
        /\ target["company_name"] =
              IF Carriers("name") = {} THEN None
              ELSE CleanedAt(LastCarrier("name"), "name")
        /\ target["company_website"] =
              IF Carriers("url") = {} THEN None
              ELSE CleanedAt(LastCarrier("url"), "url")

C9_Witness ==
    /\ stage = "meta"
    /\ Cardinality(Carriers("name")) >= 2
    /\ CleanedAt(FirstCarrier("name"), "name") # target["company_name"]
    /\ Len(doc.scripts) > LastCarrier("name")[1]

\* C10: the heuristic extractor leaves every field that holds a value when
\* it starts (a non-empty string or any integer, 0 included) as it is.
C10_HeuristicsFillOnlyAbsent ==
    [][stage = "meta" =>
          \A f \in Fields : HoldsValue(target[f]) => target'[f] = target[f]]_vars

\* C12: no text field of the record _parse_company returns is the empty
\* string; a value that is empty after normalization is stored as None, the
\* specialties of a list holding only blank entries included.
C12_NoEmptyString ==
    stage = "done" => \A f \in Fields : target[f] # Str(<<>>)

\* the node the next step applies, and the address object it carries
NextNode == JsonLdNodes(doc.scripts)[node_i]
AddressObject(node) ==
    LET raw == Get(node, "address")
    IN  IF IsList(raw) /\ raw[2] # <<>> THEN raw[2][1] ELSE raw
CountryOf(node) == Get(AddressObject(node)[2], "addressCountry")

\* C13: applying a candidate node whose address object has addressCountry
\* as an object with a name sets company_country to the cleaned name, and
\* as a plain string sets it to the cleaned string.
C13_CountryFromObjectOrString ==
    [][(/\ stage = "json_ld"
        /\ node_i <= Len(JsonLdNodes(doc.scripts))
        /\ IsCandidate(NextNode)
        /\ IsDict(AddressObject(NextNode)))
       => LET country == CountryOf(NextNode)
          IN  /\ (IsDict(country) /\ "name" \in DOMAIN country[2]) =>
                     target'["company_country"] = clean_text(country[2]["name"])
              /\ IsStr(country) =>
                     target'["company_country"] = clean_text(country)]_vars

(***************************************************************************)
(* The structured-data extractor run twice                                 *)
(***************************************************************************)
InitTwice ==
    /\ BatchIdle
    /\ doc \in Docs
    /\ target \in StartRecords
    /\ node_i = 1
    /\ stage = "json_ld"
    /\ first = None

NextTwice ==
    \/ ApplyNode
    \/ RunAgain
    \/ ApplyNodeAgain
    \/ AgainReturn

SpecTwice == InitTwice /\ [][NextTwice]_vars

\* C11: a second run of _parse_from_json_ld over the same document, started
\* from the record the first run produced, ends with every field other than
\* company_name and company_website as the first run left it.
C11_SecondRunChangesNothing ==
    stage = "twice" =>
        \A f \in Fields \ {"company_name", "company_website"} :
            target[f] = first[f]

C11_Witness ==
    /\ stage = "twice"
    /\ Len(JsonLdNodes(doc.scripts)) >= 2
    /\ first["company_about_us"] = Str(<<"d">>)
    /\ first["company_locality"] = Str(<<"T">>)
    /\ first["company_postal_code"] = None
    /\ first["company_followers_on_linkedin"] = IntV(0)

(***************************************************************************)
(* Termination of the batch                                                *)
(*                                                                         *)
(* scrape_profiles is one sequential thread: once called it keeps taking   *)
(* steps, and every request it issues comes back with a status or an       *)
(* error.  Hence weak fairness of Next.                                    *)
(***************************************************************************)
SpecFair == Init /\ [][Next]_vars /\ WF_vars(Next)

\* every URL has as many records as it has places in the list, each at one
\* of its places; for an empty list nothing was fetched
Returned ==
    /\ pc = "done"
    /\ Len(results) = Len(urls)
    /\ \A i \in DOMAIN urls : results[i]["company_profile"] = urls[i]
    /\ urls = <<>> => (results = <<>> /\ reqs = <<>> /\ attempt = 0)

\* C14: for every URL list and every max_retries, zero and negative
\* included, scrape_profiles eventually returns; by then every URL has its
\* one record, and for an empty list the result is empty and no request was
\* ever issued.
C14_Returns == <>[]Returned

C14_Witness ==
    /\ pc = "done"
    /\ max_retries < 0
    /\ Len(urls) = 2
    /\ Len(results) = 2

====
